---- MODULE Spec2Model ----
(***************************************************************************)
(* A model of await-sleep-until.                                           *)
(*                                                                         *)
(* sleepUntil (src/unnamed/part_000, lines 44-102; the same code compiled  *)
(* is src/src/index.ts, lines 121-172) is modelled as a state machine of   *)
(* one invocation: the promise it returns, the abort listener it puts on   *)
(* the signal, and the position of its polling loop between two awaits.    *)
(* The environment is the caller: it aborts the signal, changes what the   *)
(* condition would answer, and lets the clock advance.                     *)
(*                                                                         *)
(* parallel (part_000, lines 285-315) and retry (part_000, lines 122-169)  *)
(* are each modelled as one invocation with variables of its own, under a  *)
(* specification of its own (SpecParallel, SpecRetry): the three do not    *)
(* share state. So are withTimeout, debounce, throttle and sequential      *)
(* (SpecWithTimeout, SpecDebounce, SpecThrottle, SpecSequential): the state *)
(* of each is one record, with a clock of its own.                         *)
(*                                                                         *)
(* SpecSyncCondition is sleepUntil again, polling a condition that returns *)
(* at once: the caller's timer callbacks wait for the microtask queue.     *)
(***************************************************************************)
EXTENDS Integers, Sequences, FiniteSets, TLC

\* ------------------------------------------------------------------ bounds

\* The clock of sleepUntil runs from 0 to MaxTime.
MaxTime == 2
\* The clocks of withTimeout, debounce and throttle run from 0 to MaxClock.
MaxClock == 3
\* How often the caller changes what the condition answers.
MaxFlips == 1
\* How many times the condition is invoked before the model stops the loop.
MaxChecks == 3

\* A debounced or throttled function is called at most MaxCalls times.
MaxCalls == 3

\* parallel is given 0..MaxTasks tasks.
MaxTasks == 4
\* retry is given attempts in 0..MaxAttempts.
MaxAttempts == 3

\* ------------------------------------------------------- program constants

\* timeout = Infinity, the default of opts.timeout: larger than any clock value.
Infinity == 999

\* ------------------------------------------------------------------ values

\* What condition() can answer: the three "not yet" values, then 0, "" and an
\* object; or an error it throws (its promise rejects with).
Empties == {"false", "null", "undefined"}
Values == Empties \cup {"zero", "emptystr", "obj"}
Errors == {"E1"}
Answers == Values \cup Errors

\* JavaScript's truthiness of a value of Values (ToBoolean).
Truthy(v) == v = "obj"

\* opts.interval, opts.timeout, opts.backoff
Intervals == {0, 1, 2}
Timeouts == {1, 2, Infinity}
Backoffs == {"none", "attempt", "negative", "throws"}
\* the reason given to controller.abort(reason)
Reasons == {"undefined", "R1"}

VARIABLES
  \* opts of the call
  interval, timeout, hasSignal, backoff,
  \* the AbortSignal: signal.aborted, signal.reason, and whether onAbort is
  \* among its 'abort' listeners
  aborted, reason, listener,
  \* the clock read by now()
  now,
  \* what condition() answers when an invocation of it completes
  world,
  \* the invocation: where its loop stands, start, attempt, the pending
  \* sleepFor timer, and the state of the promise it returned
  pc, start, attempt, timerDue, outcome,
  \* history: what has happened so far, read by the properties only
  hist

VARIABLES
  \* parallel(tasks, concurrency): tasks.length and concurrency
  nTasks, concurrency,
  \* per task: how often its thunk was invoked, and the state of the promise
  \* it returned ("unstarted", "running", "ok", "fail")
  started, taskState,
  \* the windowed path: the index of for-of over tasks, the arrays executing
  \* (of task numbers, standing for their .then promises) and results
  nextTask, executing, results,
  \* where the call stands, the Promise.race / Promise.all it awaits, and
  \* the state of the promise it returned
  parPc, awaiting, parOutcome,
  \* history, read by the properties only
  parHist

parVars == <<nTasks, concurrency, started, taskState, nextTask, executing,
             results, parPc, awaiting, parOutcome, parHist>>

VARIABLES
  \* retry(fn, options): attempts, delay, onRetry (given or not), retryIf
  rAttempts, rDelay, rOnRetry, rRetryIf,
  \* options.signal: given or not, signal.aborted, signal.reason
  rHasSignal, rAborted, rReason,
  \* where the call stands, attempt, lastError, and the state of its promise
  rPc, rAttempt, rLastError, rOutcome,
  \* history, read by the properties only
  rHist

retryVars == <<rAttempts, rDelay, rOnRetry, rRetryIf, rHasSignal, rAborted,
               rReason, rPc, rAttempt, rLastError, rOutcome, rHist>>

VARIABLES
  \* withTimeout(promise, ms, timeoutError): the arguments, the wrapped
  \* promise, the timer of sleepFor(ms) and the promise returned
  wt,
  \* debounce(fn, ms): ms, timeoutId, resolve and latestArgs of the closure,
  \* and the promises its calls returned
  deb,
  \* throttle(fn, ms): ms, lastCall, timeoutId, pendingResolve and pendingArgs
  \* of the closure, and the promises its calls returned
  thr,
  \* sequential(tasks): the tasks, the for-of index, results and the promise
  \* returned
  seq

utilVars == <<wt, deb, thr, seq>>

opts == <<interval, timeout, hasSignal, backoff>>
signal == <<aborted, reason, listener>>
call == <<pc, start, attempt, timerDue, outcome>>
untilVars == <<opts, signal, now, world, call, hist>>
vars == <<untilVars, parVars, retryVars, utilVars>>

Pending == <<"pending", "">>

\* ----------------------------------------------------------------- helpers

\* value !== false && value !== null && value !== undefined
NonEmptyOnlyFalse(value) == value # "false"
NonEmpty(value) == ~(value = "false" \/ value = "null" \/ value = "undefined")

\* signal.reason ?? new DOMException('Aborted', 'AbortError')
ReasonDropped(r) == "AbortError"
ReasonOrDefault(r) == IF r = "undefined" THEN "AbortError" ELSE r

\* resolve / reject of the promise made by new Promise: the first call settles
\* it, a later call changes nothing.
SettleOverwrites(p, o) == o
Settle(p, o) == IF p = Pending THEN o ELSE p

\* cleanup(): if (signal) signal.removeEventListener('abort', onAbort)
\* The new value of `listener`.
CleanupKeeps(l) == l
cleanup(l) == FALSE

\* now() - start >= timeout
DeadlineIgnoresStart(t, s, limit) == t >= limit
DeadlinePassed(t, s, limit) == t - s >= limit

\* One pass of the loop's body after `await condition()`, lines 76-95: the
\* catch, then the emptiness test, then the deadline test, else the wait.
VerdictDeadlineFirst(value, t, s, limit) ==
  IF value \in Errors THEN "throw"
  ELSE IF DeadlinePassed(t, s, limit) THEN "timeout"
  ELSE IF NonEmpty(value) THEN "resolve"
  ELSE "wait"
Verdict(value, t, s, limit) ==
  IF value \in Errors THEN "throw"
  ELSE IF NonEmpty(value) THEN "resolve"
  ELSE IF DeadlinePassed(t, s, limit) THEN "timeout"
  ELSE "wait"

\* backoff(attempt) for the backoff functions of the model
BackoffValue(kind, n) == IF kind = "attempt" THEN n ELSE 0 - 1

\* const wait = backoff ? backoff(attempt++) : interval
WaitIntervalOnly(kind, n, iv) == iv
Wait(kind, n, iv) == IF kind # "none" THEN BackoffValue(kind, n) ELSE iv

\* if (wait > 0) await sleepFor(wait)
ShouldSleepNonZero(wait) == wait # 0
ShouldSleep(wait) == wait > 0

\* catch (err) { cleanup(); return reject(err); }: what the promise is
\* rejected with when condition() throws err.
RejectWrapsError(err) == <<"error", "Wrapped">>
RejectError(err) == <<"error", err>>

\* backoff(attempt++) throws err, outside the try block: the async loop's own
\* promise rejects, and void loop() drops it. The promise of sleepUntil, p, is
\* left as it is.
ThrowCaughtInLoop(p, err) == Settle(p, <<"error", err>>)
ThrowInLoop(p, err) == p

\* ----------------------------------------------------------------- history

Hist0 ==
  [ condCalls |-> 0,         \* invocations of condition()
    condCallsAfterAbort |-> 0, \* those made when signal.aborted was true
    checks |-> 0,            \* completed invocations
    firstResult |-> "none",  \* what the first completed invocation answered
    lastResult |-> "none",   \* what the last completed invocation answered
    lastCheckAt |-> 0 - 1,   \* elapsed time at the last completed invocation
    allEmpty |-> TRUE,       \* every completed invocation answered "not yet"
    backoffCalls |-> 0,      \* invocations of backoff()
    lastWait |-> 0,          \* the last value of `wait`
    timers |-> 0,            \* sleepFor timers scheduled
    settleCalls |-> 0,       \* calls of resolve / reject
    commits |-> 0,           \* those that changed the promise's state
    settledAt |-> 0 - 1,     \* the clock at the last such change
    onAbortRuns |-> 0,       \* executions of onAbort
    onAbortByEvent |-> 0,    \* those dispatched by the signal's abort event
    onAbortLate |-> FALSE,   \* onAbort ran with the promise already settled
    eventLate |-> FALSE,     \* the abort event ran it with the promise settled
    registered |-> FALSE,    \* the call put a listener on the signal
    preAborted |-> FALSE,    \* the signal was aborted when the call was made
    abortedAt |-> 0 - 1,     \* the clock at the abort
    abortPc |-> "none",      \* where the loop stood at the abort
    abortOutcome |-> Pending, \* the promise's state just before the abort
    world0 |-> "none",       \* what the condition answered at the call
    flips |-> 0,             \* changes of the condition's answer since
    flipAt |-> 0 - 1 ]       \* the clock at the first change

\* The history after a call of resolve / reject that takes the promise from
\* `before` to `after`.
Settled(h, before, after) ==
  [h EXCEPT !.settleCalls = @ + 1,
            !.commits = IF after # before THEN @ + 1 ELSE @,
            !.settledAt = IF after # before THEN now ELSE @]

\* -------------------------------------------------------------------- Init

\* The state of parallel's variables before parallel is called with n tasks
\* and concurrency k.
ParallelNotCalled(n, k) ==
  /\ nTasks = n
  /\ concurrency = k
  /\ started = [i \in 1..n |-> 0]
  /\ taskState = [i \in 1..n |-> "unstarted"]
  /\ nextTask = 1
  /\ executing = <<>>
  /\ results = <<>>
  /\ parPc = "idle"
  /\ awaiting = [snap |-> <<>>, state |-> <<"none">>]
  /\ parOutcome = Pending
  /\ parHist = [startedWhenFull |-> FALSE, firstFail |-> 0, blocked |-> FALSE,
                lateCompletions |-> 0, startOrder |-> <<>>]

\* The promise of retry: its state; for a rejection whether the reason is a
\* RetryError or the value thrown as it is, and RetryError.attempts; then
\* the value, the thrown value or RetryError.lastError.
RetryPending == <<"pending", "", 0, "">>

\* The state of retry's variables before retry is called with these options.
RetryNotCalled(n, d, cb, rif, sig) ==
  /\ rAttempts = n
  /\ rDelay = d
  /\ rOnRetry = cb
  /\ rRetryIf = rif
  /\ rHasSignal = sig
  /\ rAborted = FALSE
  /\ rReason = "undefined"
  /\ rPc = "idle"
  /\ rAttempt = 0
  /\ rLastError = "undefined"
  /\ rOutcome = RetryPending
  /\ rHist = [fnResults |-> <<>>, fnCalls |-> 0, onRetryCalls |-> 0,
              sleeps |-> 0, abortedAtCalls |-> 0 - 1,
              onRetryArgs |-> <<>>, abortPc |-> ""]

\* What wt, deb, thr and seq hold while the function is not in use.
NotCalled == "not called"

\* The state of sleepUntil's variables while sleepUntil is not called.
SleepUntilNotCalled ==
  /\ interval = 0
  /\ timeout = Infinity
  /\ hasSignal = FALSE
  /\ backoff = "none"
  /\ aborted = FALSE
  /\ reason = "undefined"
  /\ listener = FALSE
  /\ now = 0
  /\ world = "false"
  /\ pc = "idle"
  /\ start = 0
  /\ attempt = 0
  /\ timerDue = 0
  /\ outcome = Pending
  /\ hist = Hist0

Init ==
  /\ wt = NotCalled /\ deb = NotCalled /\ thr = NotCalled /\ seq = NotCalled
  /\ ParallelNotCalled(0, Infinity)
  /\ RetryNotCalled(0, 0, FALSE, "always", FALSE)
  /\ interval \in Intervals
  /\ timeout \in Timeouts
  /\ hasSignal \in BOOLEAN
  /\ backoff \in Backoffs
  \* interval is not read when a backoff function is given
  /\ backoff # "none" => interval = 2
  /\ aborted = FALSE
  /\ reason = "undefined"
  /\ listener = FALSE
  \* the call is made at some reading of the clock
  /\ now \in {0, 1}
  /\ world \in Answers
  /\ pc = "idle"
  /\ start = 0
  /\ attempt = 0
  /\ timerDue = 0
  /\ outcome = Pending
  /\ hist = Hist0

\* ----------------------------------------------------------------- actions

\* onAbort: cleanup(); reject(signal.reason ?? AbortError). `r` is
\* signal.reason, `byEvent` tells the abort event's dispatch from the loop's
\* own call; the event's dispatch takes the { once: true } listener off the
\* signal before it runs it. Gives the new listener, outcome and history.
onAbort(r, byEvent, h) ==
  LET after == Settle(outcome, <<"cancelled", ReasonOrDefault(r)>>)
      h1 == [h EXCEPT !.onAbortRuns = @ + 1,
                      !.onAbortByEvent = IF byEvent THEN @ + 1 ELSE @,
                      !.onAbortLate = @ \/ outcome # Pending,
                      !.eventLate = @ \/ (byEvent /\ outcome # Pending)]
  IN /\ listener' = cleanup(IF byEvent THEN FALSE ELSE listener)
     /\ outcome' = after
     /\ hist' = Settled(h1, outcome, after)

\* value = await condition(): the invocation. Gives the new pc and history.
InvokeCondition(h) ==
  /\ h.condCalls < MaxChecks
  /\ pc' = "cond"
  /\ hist' = [h EXCEPT !.condCalls = @ + 1,
                       !.condCallsAfterAbort = IF aborted THEN @ + 1 ELSE @]

\* The head of the loop: if (signal?.aborted) return onAbort(); then the
\* invocation of condition(). Gives the new pc, listener, outcome and history.
loopTopNoCheck(h) ==
  /\ InvokeCondition(h)
  /\ UNCHANGED <<listener, outcome>>
loopTop(h) ==
  IF hasSignal /\ aborted
    THEN /\ onAbort(reason, FALSE, h)
         /\ pc' = "done"
    ELSE /\ InvokeCondition(h)
         /\ UNCHANGED <<listener, outcome>>

\* sleepUntil without its fast abort: the listener is put on the signal, and
\* the head of the loop sees the abort.
sleepUntilNoFastAbort ==
  /\ pc = "idle"
  /\ start' = now
  /\ attempt' = 0
  /\ IF hasSignal /\ aborted
       THEN /\ onAbort(reason, FALSE, [hist EXCEPT !.registered = hasSignal,
                                                   !.preAborted = TRUE,
                                                   !.world0 = world])
            /\ pc' = "done"
       ELSE /\ listener' = hasSignal
            /\ InvokeCondition([hist EXCEPT !.registered = hasSignal,
                                            !.world0 = world])
            /\ outcome' = outcome
  /\ UNCHANGED <<opts, aborted, reason, now, world, timerDue>>

\* sleepUntil(condition, opts), up to the first await of its loop.
sleepUntil ==
  /\ pc = "idle"
  /\ IF hasSignal /\ aborted
       THEN \* Fast abort: return Promise.reject(signal.reason ?? AbortError)
            LET after == <<"cancelled", ReasonOrDefault(reason)>>
            IN /\ outcome' = after
               /\ pc' = "done"
               /\ hist' = Settled([hist EXCEPT !.preAborted = TRUE,
                                               !.world0 = world],
                                  outcome, after)
               /\ UNCHANGED <<start, attempt, listener>>
       ELSE /\ start' = now
            /\ attempt' = 0
            /\ listener' = hasSignal
            /\ InvokeCondition([hist EXCEPT !.registered = hasSignal,
                                            !.world0 = world])
            /\ outcome' = outcome
  /\ UNCHANGED <<opts, aborted, reason, now, world, timerDue>>

\* The loop resumes from `await condition()` with what the condition answers.
conditionReturns ==
  /\ pc = "cond"
  /\ LET h == [hist EXCEPT !.checks = @ + 1,
                           !.firstResult = IF hist.checks = 0 THEN world ELSE @,
                           !.lastResult = world,
                           !.allEmpty = @ /\ world \in Empties,
                           !.lastCheckAt = now - start]
         verdict == Verdict(world, now, start, timeout)
     IN \/ \* catch (err) { cleanup(); return reject(err); }
           /\ verdict = "throw"
           /\ LET after == Settle(outcome, RejectError(world))
              IN /\ outcome' = after
                 /\ hist' = Settled(h, outcome, after)
           /\ listener' = cleanup(listener)
           /\ pc' = "done"
           /\ UNCHANGED <<attempt, timerDue>>
        \/ \* if (value is not empty) { cleanup(); return resolve(value); }
           /\ verdict = "resolve"
           /\ LET after == Settle(outcome, <<"resolved", world>>)
              IN /\ outcome' = after
                 /\ hist' = Settled(h, outcome, after)
           /\ listener' = cleanup(listener)
           /\ pc' = "done"
           /\ UNCHANGED <<attempt, timerDue>>
        \/ \* if (now() - start >= timeout) { cleanup(); return reject(...); }
           /\ verdict = "timeout"
           /\ LET after == Settle(outcome, <<"timeout", "SleepTimeoutError">>)
              IN /\ outcome' = after
                 /\ hist' = Settled(h, outcome, after)
           /\ listener' = cleanup(listener)
           /\ pc' = "done"
           /\ UNCHANGED <<attempt, timerDue>>
        \/ \* backoff(attempt++) throws: the loop's own promise rejects, which
           \* nothing handles (void loop())
           /\ verdict = "wait"
           /\ backoff = "throws"
           /\ attempt' = attempt + 1
           /\ hist' = [h EXCEPT !.backoffCalls = @ + 1]
           /\ pc' = "dead"
           /\ outcome' = ThrowInLoop(outcome, "BackoffError")
           /\ UNCHANGED <<listener, timerDue>>
        \/ \* if (wait > 0) await sleepFor(wait)
           /\ verdict = "wait"
           /\ backoff # "throws"
           /\ ShouldSleep(Wait(backoff, attempt, interval))
           /\ attempt' = IF backoff # "none" THEN attempt + 1 ELSE attempt
           /\ timerDue' = now + Wait(backoff, attempt, interval)
           /\ hist' = [h EXCEPT !.timers = @ + 1,
                                !.lastWait = Wait(backoff, attempt, interval),
                                !.backoffCalls = IF backoff # "none" THEN @ + 1 ELSE @]
           /\ pc' = "sleeping"
           /\ UNCHANGED <<listener, outcome>>
        \/ \* wait <= 0: straight to the head of the loop
           /\ verdict = "wait"
           /\ backoff # "throws"
           /\ ~ShouldSleep(Wait(backoff, attempt, interval))
           /\ attempt' = IF backoff # "none" THEN attempt + 1 ELSE attempt
           /\ loopTop([h EXCEPT !.lastWait = Wait(backoff, attempt, interval),
                                !.backoffCalls = IF backoff # "none" THEN @ + 1 ELSE @])
           /\ UNCHANGED timerDue
  /\ UNCHANGED <<opts, aborted, reason, now, world, start>>

sleepForFiresEarly ==
  /\ pc = "sleeping"
  /\ loopTop(hist)
  /\ UNCHANGED <<opts, aborted, reason, now, world, start, attempt, timerDue>>

\* The timer of sleepFor(wait) fires, no earlier than `wait` after it was set,
\* and the loop resumes at its head.
sleepForFires ==
  /\ pc = "sleeping"
  /\ now >= timerDue
  /\ loopTop(hist)
  /\ UNCHANGED <<opts, aborted, reason, now, world, start, attempt, timerDue>>

\* The caller aborts the signal: controller.abort(r). The abort event runs
\* onAbort if it is (still) a listener; { once: true } removes it.
abort(r) ==
  /\ hasSignal
  /\ ~aborted
  /\ aborted' = TRUE
  /\ reason' = r
  /\ LET h == [hist EXCEPT !.abortedAt = now,
                           !.abortPc = pc,
                           !.abortOutcome = outcome]
     IN IF listener
          THEN onAbort(r, TRUE, h)
          ELSE /\ hist' = h
               /\ UNCHANGED <<listener, outcome>>
  /\ UNCHANGED <<opts, now, world, pc, start, attempt, timerDue>>

\* The caller changes what the condition answers (the variable it reads).
worldChanges(v) ==
  /\ pc \in {"cond", "sleeping"}
  /\ hist.flips < MaxFlips
  /\ v # world
  /\ world' = v
  /\ hist' = [hist EXCEPT !.flips = @ + 1,
                          !.flipAt = IF hist.flips = 0 THEN now ELSE @]
  /\ UNCHANGED <<opts, signal, now, call>>

tickEnforcesDeadline ==
  /\ pc \in {"cond", "sleeping"}
  /\ now < MaxTime
  /\ now' = now + 1
  /\ outcome' = IF DeadlinePassed(now + 1, start, timeout)
                  THEN Settle(outcome, <<"timeout", "SleepTimeoutError">>)
                  ELSE outcome
  /\ UNCHANGED <<opts, signal, world, pc, start, attempt, timerDue, hist>>

\* Time passes while the invocation polls (the clock is read by the loop only).
tick ==
  /\ pc \in {"cond", "sleeping"}
  /\ now < MaxTime
  /\ now' = now + 1
  /\ UNCHANGED <<opts, signal, world, call, hist>>

Next ==
  \/ sleepUntil /\ UNCHANGED <<parVars, retryVars, utilVars>>
  \/ conditionReturns /\ UNCHANGED <<parVars, retryVars, utilVars>>
  \/ sleepForFires /\ UNCHANGED <<parVars, retryVars, utilVars>>
  \/ (\E r \in Reasons : abort(r)) /\ UNCHANGED <<parVars, retryVars, utilVars>>
  \/ (\E v \in Answers : worldChanges(v)) /\ UNCHANGED <<parVars, retryVars, utilVars>>
  \/ tick /\ UNCHANGED <<parVars, retryVars, utilVars>>

Spec == Init /\ [][Next]_vars

\* ------------------------------------- sleepUntil of a synchronous condition

\* value = await condition() with a condition that returns its value at
\* once: the loop resumes in a microtask, which the event loop runs before
\* any timer callback. While the loop stands at that await, a microtask is
\* queued.
MicrotaskYieldsToTimers == FALSE
MicrotaskPending == pc = "cond"

\* A timer callback of the caller aborts the signal, or changes what the
\* condition answers. (Before the call it is the caller's own code that
\* aborts.) The event loop runs it when no microtask is queued.
callerAborts(r) ==
  /\ ~MicrotaskPending
  /\ abort(r)

callerSetsCondition(v) ==
  /\ ~MicrotaskPending
  /\ worldChanges(v)

NextSyncCondition ==
  \/ sleepUntil /\ UNCHANGED <<parVars, retryVars, utilVars>>
  \/ conditionReturns /\ UNCHANGED <<parVars, retryVars, utilVars>>
  \/ sleepForFires /\ UNCHANGED <<parVars, retryVars, utilVars>>
  \/ (\E r \in Reasons : callerAborts(r))
       /\ UNCHANGED <<parVars, retryVars, utilVars>>
  \/ (\E v \in Answers : callerSetsCondition(v))
       /\ UNCHANGED <<parVars, retryVars, utilVars>>
  \/ tick /\ UNCHANGED <<parVars, retryVars, utilVars>>

SpecSyncCondition == Init /\ [][NextSyncCondition]_vars

\* ---------------------------------------------------------------- parallel

\* concurrency: invalid ones, every window from 1 to the longest task list,
\* and the default, Infinity.
Concurrencies == {0 - 1, 0} \cup (1..MaxTasks) \cup {Infinity}

\* What task i's promise fulfils with, and what it rejects with: the tasks
\* of the tests return their own number.
Output(i) == i
Err(i) == <<"task error", i>>
\* new Error('parallel: concurrency must be greater than 0')
ConcurrencyError == <<"parallel: concurrency must be greater than 0", 0>>

\* The tasks started and not completed.
InFlight == Cardinality({i \in 1..nTasks : taskState[i] = "running"})

InvalidConcurrencyNegativeOnly(k) == k < 0
InvalidConcurrencyOffByOne(k) == k <= 1
\* concurrency <= 0
InvalidConcurrency(k) == k <= 0

\* concurrency === Infinity || concurrency >= tasks.length
FastPath(k, n) == k = Infinity \/ k >= n

WindowFullOffByOne(len, k) == len > k
\* executing.length >= concurrency
WindowFull(len, k) == len >= k

NextTaskSkips(n) == n + 2
\* for (const task of tasks): the iterator moves to the next task
NextTask(n) == n + 1

\* executing.indexOf(promise): 0-based, -1 when absent
IndexOf(exec, i) ==
  IF \E k \in 1..Len(exec) : exec[k] = i
    THEN (CHOOSE k \in 1..Len(exec) :
            exec[k] = i /\ \A j \in 1..(k - 1) : exec[j] # i) - 1
    ELSE 0 - 1

\* executing.splice(at, 1): a negative `at` counts from the end of the array
Splice(exec, at) ==
  LET k == IF at < 0 THEN Len(exec) + at + 1 ELSE at + 1
  IN [j \in 1..(Len(exec) - 1) |-> IF j < k THEN exec[j] ELSE exec[j + 1]]

\* The first promise of snap, in array order, that is settled; 0 if none is.
FirstSettled(snap, ts, states) ==
  IF \E k \in 1..Len(snap) : ts[snap[k]] \in states
    THEN snap[CHOOSE k \in 1..Len(snap) :
                /\ ts[snap[k]] \in states
                /\ \A j \in 1..(k - 1) : ts[snap[j]] \notin states]
    ELSE 0

\* Promise.race(snap) as it is called: it takes the state of the first
\* promise of snap that is settled already.
RaceAtCall(snap, ts) ==
  LET i == FirstSettled(snap, ts, {"ok", "fail"})
  IN IF i = 0 THEN <<"pending">>
     ELSE IF ts[i] = "fail" THEN <<"err", i>> ELSE <<"ok">>

\* Promise.race(snap) when promise i settles with fate.
RaceOnSettle(state, snap, i, fate) ==
  IF state # <<"pending">> \/ \A k \in 1..Len(snap) : snap[k] # i THEN state
  ELSE IF fate = "fail" THEN <<"err", i>> ELSE <<"ok">>

\* Promise.all(snap) as it is called: rejected with the first rejected
\* promise of snap, fulfilled when every promise of snap is.
AllAtCall(snap, ts) ==
  LET i == FirstSettled(snap, ts, {"fail"})
  IN IF i # 0 THEN <<"err", i>>
     ELSE IF \A k \in 1..Len(snap) : ts[snap[k]] = "ok" THEN <<"ok">>
     ELSE <<"pending">>

AllOnSettleIgnoresFailure(state, snap, ts, i) ==
  IF state # <<"pending">> THEN state
  ELSE IF \A k \in 1..Len(snap) : ts[snap[k]] \in {"ok", "fail"} THEN <<"ok">>
  ELSE <<"pending">>

\* Promise.all(snap) when promise i settles, ts being the states after it.
AllOnSettle(state, snap, ts, i) ==
  IF state # <<"pending">> \/ \A k \in 1..Len(snap) : snap[k] # i THEN state
  ELSE IF ts[i] = "fail" THEN <<"err", i>>
  ELSE IF \A k \in 1..Len(snap) : ts[snap[k]] = "ok" THEN <<"ok">>
  ELSE <<"pending">>

\* What Promise.all(tasks.map((task) => task())) fulfils with: the outputs
\* in the order of the tasks.
FastPathResult == [i \in 1..nTasks |-> Output(i)]

InitParallel ==
  /\ wt = NotCalled /\ deb = NotCalled /\ thr = NotCalled /\ seq = NotCalled
  /\ SleepUntilNotCalled
  /\ RetryNotCalled(0, 0, FALSE, "always", FALSE)
  /\ \E n \in 0..MaxTasks, k \in Concurrencies : ParallelNotCalled(n, k)

\* parallel(tasks, concurrency), up to its first await: the validation, then
\* either the fast path, which invokes every thunk and awaits Promise.all,
\* or the entry of the for-of loop.
parallel ==
  /\ parPc = "idle"
  /\ IF InvalidConcurrency(concurrency) THEN
       /\ parOutcome' = <<"rejected", ConcurrencyError>>
       /\ parPc' = "done"
       /\ UNCHANGED <<started, taskState, awaiting, parHist>>
     ELSE IF FastPath(concurrency, nTasks) THEN
       LET snap == [i \in 1..nTasks |-> i]
           ts == [i \in 1..nTasks |-> "running"]
           state == AllAtCall(snap, ts)
       IN /\ started' = [i \in 1..nTasks |-> started[i] + 1]
          /\ taskState' = ts
          /\ awaiting' = [snap |-> snap, state |-> state]
          /\ parPc' = "allFast"
          /\ parHist' = [parHist EXCEPT
               !.startedWhenFull = \E i \in 1..nTasks : i - 1 >= concurrency,
               !.startOrder = @ \o snap,
               !.blocked = state = <<"pending">>]
          /\ UNCHANGED parOutcome
     ELSE
       /\ parPc' = "loop"
       /\ UNCHANGED <<started, taskState, awaiting, parOutcome, parHist>>
  /\ UNCHANGED <<nTasks, concurrency, nextTask, executing, results>>

\* One turn of the for-of loop: task().then(...), executing.push(promise),
\* and, if the window is full, await Promise.race(executing).
forOfTurn ==
  /\ parPc = "loop"
  /\ nextTask <= nTasks
  /\ LET i == nextTask
         exec == Append(executing, i)
         ts == [taskState EXCEPT ![i] = "running"]
         full == WindowFull(Len(exec), concurrency)
         state == RaceAtCall(exec, ts)
     IN /\ started' = [started EXCEPT ![i] = @ + 1]
        /\ taskState' = ts
        /\ executing' = exec
        /\ nextTask' = NextTask(i)
        /\ parPc' = IF full THEN "race" ELSE "loop"
        /\ awaiting' = IF full THEN [snap |-> exec, state |-> state]
                       ELSE awaiting
        /\ parHist' = [parHist EXCEPT
             !.startedWhenFull = @ \/ InFlight >= concurrency,
             !.startOrder = Append(@, i),
             !.blocked = @ \/ (full /\ state = <<"pending">>)]
  /\ UNCHANGED <<nTasks, concurrency, results, parOutcome>>

\* The for-of loop is over: await Promise.all(executing).
forOfEnds ==
  /\ parPc = "loop"
  /\ nextTask > nTasks
  /\ LET state == AllAtCall(executing, taskState)
     IN /\ awaiting' = [snap |-> executing, state |-> state]
        /\ parHist' = [parHist EXCEPT !.blocked = @ \/ state = <<"pending">>]
  /\ parPc' = "all"
  /\ UNCHANGED <<nTasks, concurrency, started, taskState, nextTask,
                 executing, results, parOutcome>>

\* The promise of task i settles, with fate "ok" or "fail". On the windowed
\* path the .then callback of a fulfilled task runs: results.push(result),
\* executing.splice(executing.indexOf(promise), 1). No task settles while
\* parallel runs between two awaits.
taskSettles(i, fate) ==
  /\ parPc # "loop"
  /\ taskState[i] = "running"
  /\ LET ts == [taskState EXCEPT ![i] = fate]
         callback == fate = "ok" /\ ~FastPath(concurrency, nTasks)
     IN /\ taskState' = ts
        /\ results' = IF callback THEN Append(results, Output(i)) ELSE results
        /\ executing' = IF callback
                          THEN Splice(executing, IndexOf(executing, i))
                          ELSE executing
        /\ awaiting' =
             IF parPc = "race"
               THEN [awaiting EXCEPT
                      !.state = RaceOnSettle(@, awaiting.snap, i, fate)]
             ELSE IF parPc \in {"all", "allFast"}
               THEN [awaiting EXCEPT
                      !.state = AllOnSettle(@, awaiting.snap, ts, i)]
             ELSE awaiting
        /\ parHist' = [parHist EXCEPT
             !.firstFail = IF @ = 0 /\ fate = "fail" THEN i ELSE @,
             !.lateCompletions = IF parPc = "done" THEN @ + 1 ELSE @]
  /\ UNCHANGED <<nTasks, concurrency, started, nextTask, parPc, parOutcome>>

\* parallel resumes from its await: a rejection of the awaited promise is
\* thrown, and rejects the promise of parallel; after Promise.race the loop
\* goes on; after Promise.all the results are returned.
awaitResumes ==
  /\ parPc \in {"race", "all", "allFast"}
  /\ awaiting.state[1] \in {"ok", "err"}
  /\ IF awaiting.state[1] = "err" THEN
       /\ parOutcome' = <<"rejected", Err(awaiting.state[2])>>
       /\ parPc' = "done"
     ELSE IF parPc = "race" THEN
       /\ parPc' = "loop"
       /\ UNCHANGED parOutcome
     ELSE
       /\ parOutcome' = <<"resolved", IF parPc = "all" THEN results
                                       ELSE FastPathResult>>
       /\ parPc' = "done"
  /\ awaiting' = [snap |-> <<>>, state |-> <<"none">>]
  /\ UNCHANGED <<nTasks, concurrency, started, taskState, nextTask,
                 executing, results, parHist>>

NextParallel ==
  \/ parallel /\ UNCHANGED <<untilVars, retryVars, utilVars>>
  \/ forOfTurn /\ UNCHANGED <<untilVars, retryVars, utilVars>>
  \/ forOfEnds /\ UNCHANGED <<untilVars, retryVars, utilVars>>
  \/ (\E i \in 1..nTasks, fate \in {"ok", "fail"} : taskSettles(i, fate))
       /\ UNCHANGED <<untilVars, retryVars, utilVars>>
  \/ awaitResumes /\ UNCHANGED <<untilVars, retryVars, utilVars>>

SpecParallel == InitParallel /\ [][NextParallel]_vars

\* ------------------------------------------------------------------- retry

\* What fn() can fulfil with, and the errors it can reject with.
FnValues == {"V"}
FnErrors == {"E1", "Fatal"}
\* options.retryIf: the default () => true, or a predicate that refuses to
\* retry after the error "Fatal".
RetryIfs == {"always", "notFatal"}
\* options.delay: the number 0, a positive number, or a function of attempt.
Delays == {"zero", "positive", "function"}

ShouldRetryAlways(rif, error) == TRUE
\* retryIf(error)
ShouldRetry(rif, error) == rif = "always" \/ error # "Fatal"

\* typeof delay === 'function' ? delay(attempt, error) : delay, the function
\* being (attempt) => attempt - 1: no wait before the second invocation.
WaitTime(d, att) ==
  CASE d = "zero" -> 0
    [] d = "positive" -> 1
    [] d = "function" -> att - 1

\* while (attempt < attempts)
LoopContinues(att, atts) == att < atts

ExhaustedOffByOne(att, atts) == att > atts
\* if (attempt >= attempts)
Exhausted(att, atts) == att >= atts

SignalIgnored(has, ab) == FALSE
\* signal?.aborted
SignalAborted(has, ab) == has /\ ab

MakeRetryErrorNoCause(atts, error) == <<"rejected", "RetryError", atts, "undefined">>
\* throw new RetryError(attempts, lastError)
MakeRetryError(atts, error) == <<"rejected", "RetryError", atts, error>>

\* throw error; throw signal.reason ?? ...: the promise rejects with the value
Throw(error) == <<"rejected", "thrown", 0, error>>

ReturnNothing(v) == <<"resolved", "", 0, "undefined">>
\* return await fn()
Return(v) == <<"resolved", "", 0, v>>

InitRetry ==
  /\ wt = NotCalled /\ deb = NotCalled /\ thr = NotCalled /\ seq = NotCalled
  /\ SleepUntilNotCalled
  /\ ParallelNotCalled(0, Infinity)
  /\ \E n \in 0..MaxAttempts, d \in Delays, cb \in BOOLEAN,
        rif \in RetryIfs, sig \in BOOLEAN : RetryNotCalled(n, d, cb, rif, sig)

\* The top of the while loop, with attempt = att and lastError = le: the
\* loop test, the check of signal.aborted, then the invocation of fn, whose
\* promise is awaited; after the loop, throw new RetryError.
retryLoop(att, le, h) ==
  /\ rAttempt' = att
  /\ rLastError' = le
  /\ IF ~LoopContinues(att, rAttempts) THEN
       /\ rOutcome' = MakeRetryError(rAttempts, le)
       /\ rPc' = "done"
       /\ rHist' = h
     ELSE IF SignalAborted(rHasSignal, rAborted) THEN
       /\ rOutcome' = Throw(ReasonOrDefault(rReason))
       /\ rPc' = "done"
       /\ rHist' = h
     ELSE
       /\ rPc' = "fn"
       /\ rHist' = [h EXCEPT !.fnCalls = @ + 1]
       /\ UNCHANGED rOutcome

\* const waitTime = ...; if (waitTime > 0) await sleepFor(waitTime); then
\* the loop goes round.
retryWait(att, le, h) ==
  IF WaitTime(rDelay, att) > 0 THEN
    /\ rPc' = "sleeping"
    /\ rAttempt' = att
    /\ rLastError' = le
    /\ rHist' = [h EXCEPT !.sleeps = @ + 1]
    /\ UNCHANGED rOutcome
  ELSE retryLoop(att, le, h)

\* retry(fn, options), up to its first await.
retry ==
  /\ rPc = "idle"
  /\ retryLoop(0, "undefined", rHist)
  /\ UNCHANGED <<rAttempts, rDelay, rOnRetry, rRetryIf, rHasSignal, rAborted,
                 rReason>>

\* The promise of fn() settles with res and retry resumes: a value is
\* returned; an error goes through the catch block, up to its next await.
fnSettles(res) ==
  /\ rPc = "fn"
  /\ LET h == [rHist EXCEPT !.fnResults = Append(@, res)]
         att == rAttempt + 1
     IN IF res \in FnValues THEN
          /\ rOutcome' = Return(res)
          /\ rPc' = "done"
          /\ rHist' = h
          /\ UNCHANGED <<rAttempt, rLastError>>
        ELSE IF ~ShouldRetry(rRetryIf, res) THEN
          /\ rOutcome' = Throw(res)
          /\ rPc' = "done"
          /\ rLastError' = res
          /\ rHist' = h
          /\ UNCHANGED rAttempt
        ELSE IF Exhausted(att, rAttempts) THEN
          /\ rOutcome' = MakeRetryError(rAttempts, res)
          /\ rPc' = "done"
          /\ rAttempt' = att
          /\ rLastError' = res
          /\ rHist' = h
        ELSE IF rOnRetry THEN
          /\ rPc' = "onRetry"
          /\ rAttempt' = att
          /\ rLastError' = res
          /\ rHist' = [h EXCEPT !.onRetryCalls = @ + 1,
                                !.onRetryArgs = Append(@, <<att, res>>)]
          /\ UNCHANGED rOutcome
        ELSE retryWait(att, res, h)
  /\ UNCHANGED <<rAttempts, rDelay, rOnRetry, rRetryIf, rHasSignal, rAborted,
                 rReason>>

\* await onRetry(attempt, error) is over.
onRetrySettles ==
  /\ rPc = "onRetry"
  /\ retryWait(rAttempt, rLastError, rHist)
  /\ UNCHANGED <<rAttempts, rDelay, rOnRetry, rRetryIf, rHasSignal, rAborted,
                 rReason>>

\* The timer of sleepFor(waitTime) fires.
retrySleepFires ==
  /\ rPc = "sleeping"
  /\ retryLoop(rAttempt, rLastError, rHist)
  /\ UNCHANGED <<rAttempts, rDelay, rOnRetry, rRetryIf, rHasSignal, rAborted,
                 rReason>>

\* The caller aborts options.signal with reason r; retry put no listener
\* on the signal.
retryAbort(r) ==
  /\ rHasSignal
  /\ ~rAborted
  /\ rAborted' = TRUE
  /\ rReason' = r
  /\ rHist' = [rHist EXCEPT !.abortedAtCalls = rHist.fnCalls,
                            !.abortPc = rPc]
  /\ UNCHANGED <<rAttempts, rDelay, rOnRetry, rRetryIf, rHasSignal, rPc,
                 rAttempt, rLastError, rOutcome>>

NextRetry ==
  \/ retry /\ UNCHANGED <<untilVars, parVars, utilVars>>
  \/ (\E res \in FnValues \cup FnErrors : fnSettles(res))
       /\ UNCHANGED <<untilVars, parVars, utilVars>>
  \/ onRetrySettles /\ UNCHANGED <<untilVars, parVars, utilVars>>
  \/ retrySleepFires /\ UNCHANGED <<untilVars, parVars, utilVars>>
  \/ (\E r \in Reasons : retryAbort(r)) /\ UNCHANGED <<untilVars, parVars, utilVars>>

SpecRetry == InitRetry /\ [][NextRetry]_vars

\* ------------------------------------------------------------- withTimeout

\* ms of withTimeout, debounce and throttle
Delays0 == {0, 1, 2}
\* timeoutError: not given, a message, or an Error
TimeoutErrors == {"undefined", "message", "Error"}
\* How the wrapped promise can settle.
PromiseOutcomes == {<<"resolved", "V">>, <<"rejected", "E1">>}

\* What the promise `timeout` rejects with: timeoutError if it is an Error,
\* else new SleepTimeoutError(timeoutError || `Operation timed out ...`).
TimeoutRejection(err) ==
  <<"rejected",
    CASE err = "Error" -> "timeoutError"
      [] err = "message" -> "SleepTimeoutError: message"
      [] err = "undefined" -> "SleepTimeoutError: Operation timed out after ms">>

RaceLastWins(p, o) == o
\* Promise.race([promise, timeout]): the promise it returned, in state p,
\* when one of the two settles with o.
Race(p, o) == Settle(p, o)

\* Before withTimeout is called: the promise to wrap exists, and may settle.
WithTimeoutNotCalled(ms, err) ==
  wt = [ms |-> ms, timeoutError |-> err, now |-> 0, pc |-> "idle",
        promise |-> Pending, due |-> 0, fired |-> FALSE, outcome |-> Pending,
        first |-> "none", calledAt |-> 0, promiseAt |-> 0 - 1,
        firedAt |-> 0 - 1, commits |-> 0]

InitWithTimeout ==
  /\ SleepUntilNotCalled
  /\ ParallelNotCalled(0, Infinity)
  /\ RetryNotCalled(0, 0, FALSE, "always", FALSE)
  /\ deb = NotCalled /\ thr = NotCalled /\ seq = NotCalled
  /\ \E ms \in Delays0, err \in TimeoutErrors : WithTimeoutNotCalled(ms, err)

\* withTimeout(promise, ms, timeoutError): sleepFor(ms) sets the timer, and
\* Promise.race takes the state of `promise` if it is settled already.
withTimeout ==
  /\ wt.pc = "idle"
  /\ LET after == Race(wt.outcome, wt.promise)
     IN wt' = [wt EXCEPT !.pc = "racing",
                         !.due = wt.now + wt.ms,
                         !.calledAt = wt.now,
                         !.outcome = after,
                         !.first = IF after # Pending THEN "promise" ELSE @,
                         !.commits = IF after # Pending THEN 1 ELSE 0]

\* The wrapped promise settles with o, before or after the call.
promiseSettles(o) ==
  /\ wt.promise = Pending
  /\ LET after == IF wt.pc = "idle" THEN wt.outcome ELSE Race(wt.outcome, o)
     IN wt' = [wt EXCEPT !.promise = o,
                         !.promiseAt = wt.now,
                         !.outcome = after,
                         !.first = IF @ = "none" /\ wt.pc # "idle"
                                     THEN "promise" ELSE @,
                         !.commits = IF after # wt.outcome THEN @ + 1 ELSE @]

\* The timer of sleepFor(ms) fires: the .then callback throws, `timeout`
\* rejects.
timeoutFires ==
  /\ wt.pc = "racing"
  /\ ~wt.fired
  /\ wt.now >= wt.due
  /\ LET after == Race(wt.outcome, TimeoutRejection(wt.timeoutError))
     IN wt' = [wt EXCEPT !.fired = TRUE,
                         !.firedAt = wt.now,
                         !.outcome = after,
                         !.first = IF @ = "none" THEN "timeout" ELSE @,
                         !.commits = IF after # wt.outcome THEN @ + 1 ELSE @]

\* Time passes; a timer that is due fires before it does.
wtTick ==
  /\ wt.now < MaxClock
  /\ wt.pc = "racing" /\ ~wt.fired => wt.now < wt.due
  /\ wt' = [wt EXCEPT !.now = @ + 1]

NextWithTimeout ==
  \/ withTimeout /\ UNCHANGED <<untilVars, parVars, retryVars, deb, thr, seq>>
  \/ (\E o \in PromiseOutcomes : promiseSettles(o))
       /\ UNCHANGED <<untilVars, parVars, retryVars, deb, thr, seq>>
  \/ timeoutFires /\ UNCHANGED <<untilVars, parVars, retryVars, deb, thr, seq>>
  \/ wtTick /\ UNCHANGED <<untilVars, parVars, retryVars, deb, thr, seq>>

SpecWithTimeout == InitWithTimeout /\ [][NextWithTimeout]_vars

\* ---------------------------------------------------------------- debounce

\* The arguments of a call, and what fn returns for them.
Args == {"a", "b"}
FnResult(args) == <<"fn", args>>
\* A promise returned by a call: pending, or resolved with fn's result.
CallPending == <<"pending", <<>>>>
CallResolved(result) == <<"resolved", result>>
\* null, for timeoutId (else the number of the call that set the timer) and
\* for resolve (else the number of the call whose promise it resolves)
Null == 0

ClearTimeoutForgets(timers, id) == timers
\* clearTimeout(timeoutId): the pending timers without that one
ClearTimeout(timers, id) == {t \in timers : t.id # id}

ResolveAllPending(promises, resolve, result) ==
  [k \in 1..Len(promises) |->
     IF promises[k] = CallPending THEN CallResolved(result) ELSE promises[k]]
\* resolve(result): `resolve` is the res of the latest call's promise, the
\* one variable every call overwrites; the promises after it is called.
ResolveLatest(promises, resolve, result) ==
  [promises EXCEPT ![resolve] = CallResolved(result)]

\* debounce(fn, ms) has returned the debounced function.
Debounced(ms) ==
  deb = [ms |-> ms, now |-> 0, timeoutId |-> Null, resolve |-> Null,
         latestArgs |-> "null", timers |-> {}, promises |-> <<>>,
         calls |-> <<>>, runs |-> <<>>]

InitDebounce ==
  /\ SleepUntilNotCalled
  /\ ParallelNotCalled(0, Infinity)
  /\ RetryNotCalled(0, 0, FALSE, "always", FALSE)
  /\ wt = NotCalled /\ thr = NotCalled /\ seq = NotCalled
  /\ \E ms \in Delays0 : Debounced(ms)

\* A call of the debounced function with args: latestArgs = args, resolve =
\* res, the timer of the previous call is cleared and a new one set.
debouncedCall(args) ==
  /\ Len(deb.calls) < MaxCalls
  /\ LET k == Len(deb.calls) + 1
         cleared == IF deb.timeoutId # Null
                      THEN ClearTimeout(deb.timers, deb.timeoutId)
                      ELSE deb.timers
     IN deb' = [deb EXCEPT
          !.latestArgs = args,
          !.resolve = k,
          !.timers = cleared \cup {[id |-> k, due |-> deb.now + deb.ms]},
          !.timeoutId = k,
          !.promises = Append(@, CallPending),
          !.calls = Append(@, [at |-> deb.now, args |-> args])]

\* The timer t fires: if (resolve && latestArgs) { resolve(fn(latestArgs));
\* resolve = null; latestArgs = null }; timeoutId = null.
debounceTimerFires(t) ==
  /\ t \in deb.timers
  /\ deb.now >= t.due
  /\ IF deb.resolve # Null /\ deb.latestArgs # "null"
       THEN deb' = [deb EXCEPT
              !.timers = @ \ {t},
              !.runs = Append(@, [at |-> deb.now, args |-> deb.latestArgs,
                                  calls |-> Len(deb.calls)]),
              !.promises = ResolveLatest(@, deb.resolve,
                                         FnResult(deb.latestArgs)),
              !.resolve = Null,
              !.latestArgs = "null",
              !.timeoutId = Null]
       ELSE deb' = [deb EXCEPT !.timers = @ \ {t}, !.timeoutId = Null]

\* Time passes; a timer that is due fires before it does.
debTick ==
  /\ deb.now < MaxClock
  /\ \A t \in deb.timers : deb.now < t.due
  /\ deb' = [deb EXCEPT !.now = @ + 1]

NextDebounce ==
  \/ (\E args \in Args : debouncedCall(args))
       /\ UNCHANGED <<untilVars, parVars, retryVars, wt, thr, seq>>
  \/ (\E t \in deb.timers : debounceTimerFires(t))
       /\ UNCHANGED <<untilVars, parVars, retryVars, wt, thr, seq>>
  \/ debTick /\ UNCHANGED <<untilVars, parVars, retryVars, wt, thr, seq>>

SpecDebounce == InitDebounce /\ [][NextDebounce]_vars

\* ---------------------------------------------------------------- throttle

\* let lastCall = 0: the epoch of Date.now(), further in the past of the
\* model's clock, which starts at 0, than any ms.
EpochLastCall == 0 - Infinity

RemainingFull(ms, since) == ms
\* ms - timeSinceLastCall: the delay of the timer
Remaining(ms, since) == ms - since

\* throttle(fn, ms) has returned the throttled function.
Throttled(ms) ==
  thr = [ms |-> ms, now |-> 0, lastCall |-> EpochLastCall,
         timeoutId |-> Null, pendingResolve |-> Null, pendingArgs |-> "null",
         timers |-> {}, promises |-> <<>>, calls |-> <<>>, runs |-> <<>>]

InitThrottle ==
  /\ SleepUntilNotCalled
  /\ ParallelNotCalled(0, Infinity)
  /\ RetryNotCalled(0, 0, FALSE, "always", FALSE)
  /\ wt = NotCalled /\ deb = NotCalled /\ seq = NotCalled
  /\ \E ms \in Delays0 : Throttled(ms)

\* A call of the throttled function with args. If ms have passed since
\* lastCall, fn runs now; else the call becomes the pending one, and sets the
\* timer if none is set.
throttledCall(args) ==
  /\ Len(thr.calls) < MaxCalls
  /\ LET k == Len(thr.calls) + 1
         timeSinceLastCall == thr.now - thr.lastCall
     IN IF timeSinceLastCall >= thr.ms
          THEN thr' = [thr EXCEPT
                 !.lastCall = thr.now,
                 !.runs = Append(@, [at |-> thr.now, args |-> args,
                                     by |-> "call", calls |-> k]),
                 !.promises = Append(@, CallResolved(FnResult(args))),
                 !.calls = Append(@, [at |-> thr.now, args |-> args,
                                      branch |-> "now"])]
          ELSE thr' = [thr EXCEPT
                 !.pendingArgs = args,
                 !.pendingResolve = k,
                 !.timers = IF thr.timeoutId = Null
                   THEN @ \cup {[id |-> k, due |-> thr.now
                                   + Remaining(thr.ms, timeSinceLastCall)]}
                   ELSE @,
                 !.timeoutId = IF @ = Null THEN k ELSE @,
                 !.promises = Append(@, CallPending),
                 !.calls = Append(@, [at |-> thr.now, args |-> args,
                                      branch |-> "later"])]

\* The timer t fires: if (pendingArgs && pendingResolve) { lastCall =
\* Date.now(); pendingResolve(fn(pendingArgs)); both = null };
\* timeoutId = null.
throttleTimerFires(t) ==
  /\ t \in thr.timers
  /\ thr.now >= t.due
  /\ IF thr.pendingArgs # "null" /\ thr.pendingResolve # Null
       THEN thr' = [thr EXCEPT
              !.timers = @ \ {t},
              !.lastCall = thr.now,
              !.runs = Append(@, [at |-> thr.now, args |-> thr.pendingArgs,
                                  by |-> "timer", calls |-> Len(thr.calls)]),
              !.promises[thr.pendingResolve] =
                 CallResolved(FnResult(thr.pendingArgs)),
              !.pendingArgs = "null",
              !.pendingResolve = Null,
              !.timeoutId = Null]
       ELSE thr' = [thr EXCEPT !.timers = @ \ {t}, !.timeoutId = Null]

\* Time passes; a timer that is due fires before it does.
thrTick ==
  /\ thr.now < MaxClock
  /\ \A t \in thr.timers : thr.now < t.due
  /\ thr' = [thr EXCEPT !.now = @ + 1]

NextThrottle ==
  \/ (\E args \in Args : throttledCall(args))
       /\ UNCHANGED <<untilVars, parVars, retryVars, wt, deb, seq>>
  \/ (\E t \in thr.timers : throttleTimerFires(t))
       /\ UNCHANGED <<untilVars, parVars, retryVars, wt, deb, seq>>
  \/ thrTick /\ UNCHANGED <<untilVars, parVars, retryVars, wt, deb, seq>>

SpecThrottle == InitThrottle /\ [][NextThrottle]_vars

\* -------------------------------------------------------------- sequential

\* What a task can fulfil with.
TaskValues == {"x", "y"}

ContinuesAfterAny(state) == TRUE
\* results.push(await task()): the loop goes on after a task that fulfilled;
\* a rejection is thrown by the await.
ContinuesAfter(state) == state = "ok"

\* Before sequential is called with n tasks.
SequentialNotCalled(n) ==
  seq = [n |-> n, pc |-> "idle", next |-> 1,
         state |-> [i \in 1..n |-> "unstarted"],
         output |-> [i \in 1..n |-> "none"],
         started |-> [i \in 1..n |-> 0],
         results |-> <<>>, outcome |-> Pending]

InitSequential ==
  /\ SleepUntilNotCalled
  /\ ParallelNotCalled(0, Infinity)
  /\ RetryNotCalled(0, 0, FALSE, "always", FALSE)
  /\ wt = NotCalled /\ deb = NotCalled /\ thr = NotCalled
  /\ \E n \in 0..MaxTasks : SequentialNotCalled(n)

\* The for-of loop from task i on, results being what was pushed so far:
\* await task() for the next task, or return results after the last one.
forOfFrom(s, i, res) ==
  IF i <= s.n
    THEN [s EXCEPT !.pc = "await", !.next = i, !.results = res,
                   !.state[i] = "running", !.started[i] = @ + 1]
    ELSE [s EXCEPT !.pc = "done", !.next = i, !.results = res,
                   !.outcome = <<"resolved", res>>]

\* sequential(tasks), up to its first await.
sequential ==
  /\ seq.pc = "idle"
  /\ seq' = forOfFrom(seq, 1, <<>>)

\* The promise of the task awaited settles, fulfilled with v or rejected.
seqTaskSettles(state, v) ==
  /\ seq.pc = "await"
  /\ seq' = [seq EXCEPT !.pc = "settled", !.state[seq.next] = state,
                        !.output[seq.next] = v]

\* sequential resumes from its await: results.push(v) and the next turn of
\* the loop, or the rejection thrown out of the function.
seqAwaitResumes ==
  /\ seq.pc = "settled"
  /\ LET i == seq.next
     IN seq' = IF ContinuesAfter(seq.state[i])
                 THEN forOfFrom(seq, i + 1, Append(seq.results, seq.output[i]))
                 ELSE [seq EXCEPT !.pc = "done",
                                  !.outcome = <<"rejected", Err(i)>>]

NextSequential ==
  \/ sequential /\ UNCHANGED <<untilVars, parVars, retryVars, wt, deb, thr>>
  \/ (\E v \in TaskValues : seqTaskSettles("ok", v))
       /\ UNCHANGED <<untilVars, parVars, retryVars, wt, deb, thr>>
  \/ seqTaskSettles("fail", "none")
       /\ UNCHANGED <<untilVars, parVars, retryVars, wt, deb, thr>>
  \/ seqAwaitResumes
       /\ UNCHANGED <<untilVars, parVars, retryVars, wt, deb, thr>>

SpecSequential == InitSequential /\ [][NextSequential]_vars

\* -------------------------------------------------------------- properties

\* The call was cancelled while its promise was pending: the signal was
\* aborted before the call, or between the call and any outcome.
CancelledFirst == aborted /\ hist.abortOutcome = Pending

\* Elapsed time, from the call, at which the promise was settled.
SettledElapsed == hist.settledAt - start

\* The condition first answers a non-empty value at elapsed time T and keeps
\* answering it: at the call (T = 0), or after one change from "not yet".
FirstNonEmptyAt(T) ==
  /\ pc # "idle"
  /\ world \in Values \ Empties
  /\ \/ hist.flips = 0 /\ T = 0
     \/ hist.flips = 1 /\ hist.world0 \in Empties /\ T = hist.flipAt - start

\* C1 as stated: a sleepUntil call that is never aborted and whose condition
\* first answers a non-empty v at T < timeout ends only by resolving with v,
\* at an elapsed time >= T and < timeout.
C1_Original ==
  \A T \in 0..MaxTime :
    (~aborted /\ FirstNonEmptyAt(T) /\ T < timeout /\ outcome # Pending)
      => /\ outcome = <<"resolved", world>>
         /\ SettledElapsed >= T
         /\ SettledElapsed < timeout

\* C1 amended: a sleepUntil call that is never aborted and whose condition
\* first answers a non-empty v at T < timeout ends only by resolving with v,
\* at an elapsed time >= T; that time can be >= timeout, since the check that
\* finds v comes one wait after the last empty check.
C1_ResolvesWithValue ==
  \A T \in 0..MaxTime :
    (~aborted /\ FirstNonEmptyAt(T) /\ T < timeout /\ outcome # Pending)
      => /\ outcome = <<"resolved", world>>
         /\ SettledElapsed >= T

\* C1 witness: the condition turned non-empty before the deadline, after a
\* check that found it empty, and the call resolved at or after the deadline.
C1_Witness ==
  \E T \in 0..MaxTime :
    /\ ~aborted /\ FirstNonEmptyAt(T) /\ T < timeout
    /\ hist.flips = 1 /\ hist.checks >= 2
    /\ outcome = <<"resolved", world>>
    /\ SettledElapsed >= timeout

\* The condition answers nothing non-empty before timeout has elapsed: empty
\* at the call, and its answer changes (to a value) no earlier than timeout.
EmptyUntilTimeout ==
  /\ pc # "idle"
  /\ hist.world0 \in Empties
  /\ \/ hist.flips = 0
     \/ hist.flips = 1 /\ hist.flipAt - start >= timeout /\ world \in Values

\* C2 as stated: with a finite timeout, no cancellation and a condition that
\* answers nothing non-empty before timeout has elapsed, the call ends only
\* by the timeout rejection, at an elapsed time >= timeout.
C2_Original ==
  (timeout # Infinity /\ ~aborted /\ EmptyUntilTimeout /\ outcome # Pending)
    => /\ outcome = <<"timeout", "SleepTimeoutError">>
       /\ SettledElapsed >= timeout

\* C2 amended: with a finite timeout, no cancellation and a condition whose
\* every check answers "not yet" (also a check made after timeout), the call
\* ends only by the timeout rejection; and a timeout rejection is never
\* committed at an elapsed time < timeout, in any call.
C2_TimeoutNotEarly ==
  /\ (timeout # Infinity /\ ~aborted /\ hist.allEmpty /\ outcome # Pending)
       => outcome = <<"timeout", "SleepTimeoutError">>
  /\ outcome[1] = "timeout"
       => SettledElapsed >= timeout /\ hist.lastCheckAt >= timeout

\* C2 witness: a call made at clock 1 was rejected by the timeout after a
\* delay, with every check empty.
C2_Witness ==
  /\ timeout # Infinity /\ ~aborted /\ hist.allEmpty
  /\ start = 1 /\ hist.timers >= 1
  /\ outcome = <<"timeout", "SleepTimeoutError">>
  /\ SettledElapsed >= timeout

\* C3: if the signal is already aborted when sleepUntil is called, the call is
\* rejected with the cancellation, condition() is never invoked, no listener
\* is put on the signal and no timer is scheduled.
C3_PreAborted ==
  hist.preAborted
    => /\ outcome = <<"cancelled", ReasonOrDefault(reason)>>
       /\ hist.condCalls = 0
       /\ ~hist.registered /\ ~listener
       /\ hist.timers = 0
       /\ pc = "done"

\* C3 witness: a call made with an aborted signal.
C3_Witness ==
  hist.preAborted /\ pc = "done" /\ outcome = <<"cancelled", "R1">>

\* The signal was aborted after the call had started polling and before any
\* outcome was committed.
AbortedMidPoll ==
  /\ aborted
  /\ hist.abortPc \in {"cond", "sleeping", "dead"}
  /\ hist.abortOutcome = Pending

\* C4: if the signal is aborted after the call has started polling and before
\* any outcome is committed, the call is rejected with the cancellation no
\* later than one poll interval after the abort, and condition() is not
\* invoked at any point after the abort.
C4_AbortMidPoll ==
  AbortedMidPoll
    => /\ outcome = <<"cancelled", ReasonOrDefault(reason)>>
       /\ hist.settledAt <= hist.abortedAt + (IF backoff = "none" THEN interval ELSE 0)
       /\ hist.condCallsAfterAbort = 0

\* C4 witness: the signal was aborted during a delay, and the delay's timer
\* has since brought the loop back to its head.
C4_Witness ==
  /\ AbortedMidPoll /\ hist.abortPc = "sleeping"
  /\ pc = "done" /\ hist.onAbortRuns = 2
  /\ outcome = <<"cancelled", "AbortError">>

\* C5: if condition() throws on attempt k, the call is rejected with that
\* same error, and condition() is not invoked a (k+1)-th time (the call not
\* having been cancelled first).
C5_ConditionThrows ==
  (hist.checks >= 1 /\ hist.lastResult \in Errors)
    => /\ ~CancelledFirst => outcome = <<"error", hist.lastResult>>
       /\ hist.condCalls = hist.checks
       /\ pc = "done"

\* C5 witness: the condition threw on its second attempt or later.
C5_Witness ==
  /\ hist.checks >= 2 /\ hist.lastResult \in Errors
  /\ ~aborted /\ outcome = <<"error", "E1">>

C7_ResolvesOnlyOnTruthy ==
  /\ outcome[1] = "resolved" => Truthy(hist.lastResult)
  /\ (hist.checks >= 1 /\ hist.lastResult \in Values /\ Truthy(hist.lastResult)
        /\ ~CancelledFirst)
       => outcome = <<"resolved", hist.lastResult>>

\* C8: at most one of the four outcomes is ever committed, and once committed
\* it never changes: the promise's state changes at most once, from pending
\* to one outcome, however many times resolve and reject are called.
C8_SingleCommit ==
  /\ hist.commits <= 1
  /\ outcome = Pending <=> hist.commits = 0
  /\ outcome[1] \in {"pending", "resolved", "timeout", "cancelled", "error"}
  /\ hist.commits <= hist.settleCalls

\* C8 witness: resolve or reject was called again on the settled promise (the
\* abort came first, the check or the head of the loop after it).
C8_Witness ==
  /\ hist.settleCalls >= 2 /\ hist.commits = 1
  /\ outcome[1] = "cancelled" /\ hist.lastResult \in Values \ Empties

\* C9: once a call that put a listener on the signal has committed an
\* outcome, the listener is no longer on the signal.
C9_ListenerRemoved ==
  outcome # Pending => ~listener

\* C9 witness: a call with a signal ended by the timeout, not by an abort.
C9_Witness ==
  /\ hist.registered /\ ~aborted
  /\ outcome[1] = "timeout" /\ ~listener

\* C10 as stated: onAbort is executed at most once in a call, and never
\* after an outcome has been committed.
C10_Original ==
  /\ hist.onAbortRuns <= 1
  /\ ~hist.onAbortLate

\* C10 amended: the abort event executes onAbort at most once in a call, and
\* never after an outcome has been committed; the loop's own cancellation
\* check executes it at most once more, only after the event's execution has
\* committed the cancellation, and that execution changes nothing.
C10_OnAbortByEventOnce ==
  /\ hist.onAbortByEvent <= 1
  /\ ~hist.eventLate
  /\ hist.onAbortRuns - hist.onAbortByEvent <= 1
  /\ hist.onAbortRuns > hist.onAbortByEvent
       => /\ hist.onAbortByEvent = 1
          /\ outcome = <<"cancelled", ReasonOrDefault(reason)>>
          /\ hist.settledAt = hist.abortedAt
          /\ hist.commits = 1

\* C10 witness: onAbort ran twice, by the event and then by the loop.
C10_Witness ==
  /\ hist.onAbortRuns = 2 /\ hist.onAbortByEvent = 1
  /\ hist.onAbortLate /\ pc = "done"

\* --------------------------------------------------- properties of parallel

\* parallel took the windowed path: 1 <= concurrency < tasks.length.
Windowed == 1 <= concurrency /\ concurrency < nTasks

\* C11: on the windowed path, in every reachable state at most `concurrency`
\* tasks are started and not completed (and executing holds no more than
\* that), and no task was started while `concurrency` tasks were in flight.
C11_WindowBound ==
  Windowed =>
    /\ InFlight <= concurrency
    /\ Len(executing) <= concurrency
    /\ ~parHist.startedWhenFull

\* The window is full again after a task beyond the first window was started.
C11_Witness ==
  /\ Windowed
  /\ concurrency >= 2
  /\ started[concurrency + 1] = 1
  /\ InFlight = concurrency

\* C12: on the windowed path, when every task succeeds, the array parallel
\* resolves with has one element per task, and element i is the output of
\* the i-th task, whatever the order the tasks completed in.
C12_ResultsBySubmission ==
  (Windowed /\ parOutcome[1] = "resolved") =>
    /\ Len(parOutcome[2]) = nTasks
    /\ \A i \in 1..nTasks : parOutcome[2][i] = Output(i)

\* C13: the windowed path returns the array the fast path returns for the
\* same tasks: whenever parallel resolves, on either path, it resolves with
\* the result of Promise.all over the tasks.
C13_SameAsFastPath ==
  parOutcome[1] = "resolved" => parOutcome[2] = FastPathResult

\* The task whose error parallel rejected with; 0 if there is none.
FailedWith ==
  IF \E i \in 1..nTasks : parOutcome = <<"rejected", Err(i)>>
    THEN CHOOSE i \in 1..nTasks : parOutcome = <<"rejected", Err(i)>>
    ELSE 0

\* C14: with a valid concurrency, parallel never resolves when a task has
\* rejected, and it rejects only with the unchanged error of a task that has
\* rejected: the first one that did on the fast path; on the windowed path
\* the first one Promise.race or Promise.all reports, which is the first to
\* reject or a task submitted before it. The other tasks are not touched:
\* they settle after the rejection (the witness).
C14_FirstFailureWins ==
  ~InvalidConcurrency(concurrency) =>
    /\ parOutcome[1] = "resolved" =>
         \A i \in 1..nTasks : taskState[i] = "ok"
    /\ parOutcome[1] = "rejected" =>
         /\ FailedWith # 0
         /\ taskState[FailedWith] = "fail"
         /\ \/ FailedWith = parHist.firstFail
            \/ Windowed /\ FailedWith < parHist.firstFail

\* A windowed call was rejected with the error of the only task that failed,
\* and a task in flight at that time fulfilled afterwards.
C14_Witness ==
  /\ Windowed
  /\ parOutcome[1] = "rejected"
  /\ \A i \in 1..nTasks : taskState[i] = "fail" <=> i = FailedWith
  /\ parHist.lateCompletions >= 1

\* C15: once parallel has been called with concurrency <= 0, whatever the
\* task list, its promise is rejected with the error 'parallel: concurrency
\* must be greater than 0' and no thunk has been invoked.
C15_InvalidConcurrencyRejected ==
  (concurrency <= 0 /\ parPc # "idle") =>
    /\ parPc = "done"
    /\ parOutcome = <<"rejected", ConcurrencyError>>
    /\ \A i \in 1..nTasks : started[i] = 0 /\ taskState[i] = "unstarted"

\* parallel was called with tasks and concurrency 0.
C15_Witness ==
  /\ concurrency = 0
  /\ nTasks >= 1
  /\ parPc = "done"

\* C16: parallel called with no task and a valid concurrency never awaits a
\* promise that is pending, is never rejected, and ends resolved with the
\* empty array.
C16_EmptyTaskList ==
  (nTasks = 0 /\ concurrency > 0 /\ parPc # "idle") =>
    /\ ~parHist.blocked
    /\ awaiting.state # <<"pending">>
    /\ parOutcome[1] # "rejected"
    /\ parPc = "done" => parOutcome[1] = "resolved" /\ parOutcome[2] = <<>>

\* parallel([], 1) has resolved.
C16_Witness ==
  /\ nTasks = 0
  /\ concurrency = 1
  /\ parOutcome[1] = "resolved"

\* C17 as stated: with a valid concurrency every task is started, exactly
\* once. Nothing is started after parallel has settled, so every task must
\* have been started once by then.
C17_Original ==
  (concurrency > 0 /\ parPc = "done") =>
    \A i \in 1..nTasks : started[i] = 1

\* C17, amended: with a valid concurrency no thunk is invoked twice, and the
\* thunks are invoked in the order of the tasks, none skipped; every thunk
\* has been invoked once when the fast path was taken and whenever parallel
\* resolves; a task is left unstarted only by a windowed call that a task's
\* rejection ended.
C17_StartedOnceUnlessRejected ==
  concurrency > 0 =>
    /\ \A i \in 1..nTasks : started[i] <= 1
    /\ \A i, j \in 1..nTasks : (j < i /\ started[i] = 1) => started[j] = 1
    /\ ((FastPath(concurrency, nTasks) /\ parPc # "idle")
          \/ parOutcome[1] = "resolved") =>
         \A i \in 1..nTasks : started[i] = 1
    /\ (parPc = "done" /\ \E i \in 1..nTasks : started[i] = 0) =>
         /\ Windowed
         /\ FailedWith # 0
         /\ started[FailedWith] = 1

\* A windowed call has ended, rejected, with a task never started.
C17_Witness ==
  /\ Windowed
  /\ parPc = "done"
  /\ parOutcome[1] = "rejected"
  /\ started[nTasks] = 0

\* ------------------------------------------------------ properties of retry

\* retryIf lets retry go on after this error.
Retryable(error) == rRetryIf = "always" \/ error # "Fatal"

\* Every invocation of fn that has settled failed with a retryable error.
AllFailedRetryable ==
  \A k \in 1..Len(rHist.fnResults) :
    rHist.fnResults[k] \in FnErrors /\ Retryable(rHist.fnResults[k])

\* The error of the last settled invocation of fn; undefined if there is none.
LastFnError ==
  IF rHist.fnResults = <<>> THEN "undefined"
  ELSE rHist.fnResults[Len(rHist.fnResults)]

\* C18: fn is never invoked more than `attempts` times; when every
\* invocation fails with a retryable error, the failure of the
\* `attempts`-th one ends the call, rejected with a RetryError that carries
\* `attempts` and the error of that last invocation; and unless the signal
\* is aborted the call ends no earlier.
C18_ExhaustsAttempts ==
  /\ rHist.fnCalls <= rAttempts
  /\ (rPc # "idle" /\ AllFailedRetryable
        /\ Len(rHist.fnResults) = rAttempts) =>
       /\ rPc = "done"
       /\ rHist.fnCalls = rAttempts
       /\ rOutcome = <<"rejected", "RetryError", rAttempts, LastFnError>>
  /\ (rPc = "done" /\ AllFailedRetryable /\ ~rAborted) =>
       Len(rHist.fnResults) = rAttempts

\* fn failed with retryable errors on each of its two or more attempts.
C18_Witness ==
  /\ rAttempts >= 2
  /\ AllFailedRetryable
  /\ rHist.fnCalls = rAttempts
  /\ rOutcome[2] = "RetryError"

\* C19: an invocation of fn that succeeds is the last one, at most the
\* `attempts`-th: the call has ended, resolved with the value of that
\* invocation, and fn was invoked as many times as it has settled.
C19_ResolvesOnSuccess ==
  \A j \in 1..Len(rHist.fnResults) :
    rHist.fnResults[j] \in FnValues =>
      /\ j = Len(rHist.fnResults)
      /\ j <= rAttempts
      /\ rHist.fnCalls = j
      /\ rPc = "done"
      /\ rOutcome = <<"resolved", "", 0, rHist.fnResults[j]>>

\* fn succeeded after at least one failure.
C19_Witness ==
  /\ Len(rHist.fnResults) >= 2
  /\ LastFnError \in FnValues
  /\ rOutcome[1] = "resolved"

\* C20: an invocation of fn that fails with an error for which retryIf
\* returns false is the last one: the call has ended, rejected with that
\* error itself, not a RetryError; onRetry was called and a delay was slept
\* only for the failures before it.
C20_NotRetryable ==
  \A j \in 1..Len(rHist.fnResults) :
    (rHist.fnResults[j] \in FnErrors /\ ~Retryable(rHist.fnResults[j])) =>
      /\ j = Len(rHist.fnResults)
      /\ rHist.fnCalls = j
      /\ rPc = "done"
      /\ rOutcome = <<"rejected", "thrown", 0, rHist.fnResults[j]>>
      /\ rHist.onRetryCalls = IF rOnRetry THEN j - 1 ELSE 0
      /\ rHist.sleeps =
           Cardinality({a \in 1..(j - 1) : WaitTime(rDelay, a) > 0})

\* The second failure of fn was not retryable, with onRetry given and
\* further attempts left.
C20_Witness ==
  /\ rOnRetry
  /\ rAttempts > 2
  /\ Len(rHist.fnResults) = 2
  /\ ~Retryable(LastFnError)
  /\ rPc = "done"

\* C21: with onRetry given and attempts >= 1, the k-th call of onRetry is
\* made with k and the error of the k-th invocation of fn; while fn is
\* invoked, and when retry has ended by a success or by a RetryError, onRetry
\* has been called once for every invocation of fn but the last one: it is
\* not called after the final failed attempt.
C21_OnRetryBeforeEachRetry ==
  (rOnRetry /\ rAttempts >= 1) =>
    /\ rHist.onRetryCalls = Len(rHist.onRetryArgs)
    /\ \A k \in 1..Len(rHist.onRetryArgs) :
         /\ k <= Len(rHist.fnResults)
         /\ rHist.onRetryArgs[k] = <<k, rHist.fnResults[k]>>
    /\ (rPc = "fn" \/ rOutcome[1] = "resolved" \/ rOutcome[2] = "RetryError") =>
         rHist.onRetryCalls = rHist.fnCalls - 1

\* retry ended by exhausting three or more attempts, with onRetry given.
C21_Witness ==
  /\ rOnRetry
  /\ rAttempts >= 3
  /\ rOutcome[2] = "RetryError"
  /\ rHist.onRetryCalls = rAttempts - 1

\* C22: when the signal was aborted while retry awaited onRetry or the delay
\* between two attempts, fn is not invoked after the abort, retry does not
\* resolve, and it ends rejected with signal.reason, or with the default
\* AbortError when the reason is undefined.
C22_AbortBetweenAttempts ==
  (rAborted /\ rHist.abortPc \in {"onRetry", "sleeping"}) =>
    /\ rHist.fnCalls = rHist.abortedAtCalls
    /\ rPc \in {"onRetry", "sleeping", "done"}
    /\ rOutcome[1] # "resolved"
    /\ rPc = "done" =>
         rOutcome = <<"rejected", "thrown", 0,
                      IF rReason = "undefined" THEN "AbortError" ELSE rReason>>

\* retry was aborted during the delay, without a reason, and has ended.
C22_Witness ==
  /\ rAborted
  /\ rHist.abortPc = "sleeping"
  /\ rReason = "undefined"
  /\ rPc = "done"

\* ------------------------------------------- more properties of sleepUntil

\* The abort event fired while an invocation of condition() was in flight,
\* the listener still on the signal.
AbortedInFlight ==
  /\ aborted
  /\ hist.abortPc = "cond"
  /\ hist.abortOutcome = Pending
  /\ hist.onAbortByEvent = 1

\* C28: when the abort event fires while an invocation of condition() is in
\* flight, the promise is rejected with the cancellation at the abort, that
\* is its only change of state whatever the invocation answers later, and
\* condition() is not invoked again.
C28_AbortWinsOverInFlight ==
  AbortedInFlight =>
    /\ outcome = <<"cancelled", ReasonOrDefault(reason)>>
    /\ hist.commits = 1
    /\ hist.settledAt = hist.abortedAt
    /\ hist.condCallsAfterAbort = 0
    /\ hist.condCalls - hist.checks = IF pc = "cond" THEN 1 ELSE 0

\* The invocation in flight at the abort has since answered a non-empty
\* value, and resolve was called with it.
C28_Witness ==
  /\ AbortedInFlight
  /\ pc = "done"
  /\ hist.condCalls = hist.checks
  /\ hist.lastResult = "obj"
  /\ hist.settleCalls = 2
  /\ outcome[1] = "cancelled"

\* C29: once the promise of sleepUntil is settled, the loop invokes neither
\* condition() nor backoff(), schedules no delay, and no delay of the call is
\* pending.
C29_NoWorkAfterSettled ==
  /\ [](outcome # Pending => pc # "sleeping")
  /\ [][outcome # Pending =>
          /\ hist'.condCalls = hist.condCalls
          /\ hist'.backoffCalls = hist.backoffCalls
          /\ hist'.timers = hist.timers]_vars

\* C30: at most one invocation of condition() is in flight, none during a
\* delay; condition() is invoked only when every earlier invocation has
\* completed and, after a delay, only when the delay is over.
C30_SequentialChecks ==
  /\ [](/\ hist.condCalls - hist.checks \in {0, 1}
        /\ pc = "cond" <=> hist.condCalls - hist.checks = 1)
  /\ [][hist'.condCalls > hist.condCalls =>
          /\ hist'.checks = hist.condCalls
          /\ pc = "sleeping" => now >= timerDue]_vars

\* A third invocation of condition() is in flight, after two delays.
C30_Witness ==
  /\ pc = "cond"
  /\ hist.condCalls = 3
  /\ hist.timers = 2

\* ------------------------------------------------ properties of withTimeout

Superseded(k) ==
  /\ k < Len(deb.calls)
  /\ \A i \in 1..Len(deb.runs) : deb.runs[i].calls # k

\* C39: the promise of a superseded call is never settled. A call followed
\* by another less than ms later is superseded; the promise of a call is
\* resolved only by the run of fn that its own timer made, with the result
\* of fn for its arguments, so of each burst only the promise of the last
\* call resolves.
C39_SupersededNeverSettles ==
  \A k \in 1..Len(deb.calls) :
    /\ (k < Len(deb.calls) /\ deb.calls[k + 1].at - deb.calls[k].at < deb.ms)
         => Superseded(k)
    /\ Superseded(k) => deb.promises[k] = CallPending
    /\ deb.promises[k] # CallPending =>
         /\ deb.promises[k] = CallResolved(FnResult(deb.calls[k].args))
         /\ \E i \in 1..Len(deb.runs) : deb.runs[i].calls = k

\* C39 witness: a burst of three calls has run fn for the third; no timer is
\* left, the promise of the third call is resolved and the promises of the
\* first two are pending.
C39_Witness ==
  /\ Len(deb.calls) = 3
  /\ deb.calls[2].at - deb.calls[1].at < deb.ms
  /\ deb.calls[3].at - deb.calls[2].at < deb.ms
  /\ Len(deb.runs) = 1
  /\ deb.timers = {}
  /\ deb.promises[1] = CallPending
  /\ deb.promises[2] = CallPending
  /\ deb.promises[3] # CallPending

\* --------------------------------------------------- properties of throttle

\* C24: any two executions of fn through the throttled function are at least
\* ms apart.
C24_AtMostOncePerInterval ==
  \A i, j \in 1..Len(thr.runs) :
    i < j => thr.runs[j].at - thr.runs[i].at >= thr.ms

\* The calls that took the pending branch and that the timer run r serves:
\* those made since the timer run before it.
Batch(i) ==
  LET before == {j \in 1..(i - 1) : thr.runs[j].by = "timer"}
      from == IF before = {} THEN 0
              ELSE thr.runs[CHOOSE j \in before :
                              \A l \in before : l <= j].calls
  IN {k \in (from + 1)..thr.runs[i].calls : thr.calls[k].branch = "later"}

C27_OneAtATime ==
  /\ Cardinality({i \in 1..seq.n : seq.state[i] = "running"}) <= 1
  /\ \A i \in 1..seq.n :
       /\ seq.started[i] <= 1
       /\ (i > 1 /\ seq.started[i] = 1) => seq.state[i - 1] = "ok"
       /\ seq.state[i] = "fail" =>
            /\ seq.outcome \in {Pending, <<"rejected", Err(i)>>}
            /\ seq.pc = "done" => seq.outcome = <<"rejected", Err(i)>>
            /\ \A j \in (i + 1)..seq.n : seq.started[j] = 0
  /\ seq.outcome[1] = "resolved" =>
       /\ Len(seq.outcome[2]) = seq.n
       /\ \A i \in 1..seq.n :
            seq.state[i] = "ok" /\ seq.outcome[2][i] = seq.output[i]
  /\ seq.outcome[1] = "rejected" =>
       \E i \in 1..seq.n : seq.state[i] = "fail"
  /\ seq.pc = "done" <=> seq.outcome # Pending

\* sequential resolved with the different outputs of three tasks.
C27_Witness ==
  /\ seq.n = 3
  /\ seq.outcome[1] = "resolved"
  /\ seq.outcome[2][1] # seq.outcome[2][2]
  /\ seq.outcome[2][2] = seq.outcome[2][3]

\* --------------------------------------- more properties of sleepUntil (2)

\* C31: within one poll cycle the non-empty test comes before the deadline
\* test. A check that answers a non-empty value resolves the call with it,
\* also when the elapsed time at that check is >= timeout (the only call it
\* does not resolve is one the abort event had rejected while the check was
\* in flight); and a timeout rejection is committed only directly after a
\* check that answered an empty value, at the clock of that check.
C31_NonEmptyBeforeDeadline ==
  /\ (hist.checks > 0 /\ hist.lastResult \in Values \ Empties
        /\ outcome[1] # "cancelled")
       => outcome = <<"resolved", hist.lastResult>>
  /\ outcome[1] = "timeout"
       => /\ hist.lastResult \in Empties
          /\ hist.settledAt = start + hist.lastCheckAt
          /\ pc = "done"

\* C31 witness: a check made at or after the deadline answered a value and
\* the call resolved with it.
C31_Witness ==
  /\ timeout # Infinity
  /\ hist.checks > 0
  /\ hist.lastCheckAt >= timeout
  /\ hist.lastResult \in Values \ Empties
  /\ outcome = <<"resolved", hist.lastResult>>

\* The checks that were unsuccessful and did not time out: every completed
\* check but the one that ended the loop.
UnsuccessfulChecks ==
  IF hist.checks > 0
       /\ Verdict(hist.lastResult, start + hist.lastCheckAt, start, timeout)
            # "wait"
    THEN hist.checks - 1
    ELSE hist.checks

\* C32: with a backoff function, sleepUntil invokes it once after each
\* unsuccessful check that did not time out, the k-th invocation (from 0)
\* receives k, and the wait is the value it returned, whatever interval is;
\* without one, backoff is never invoked and every wait is interval. A delay
\* that is pending was set at the last check, for that wait.
C32_BackoffPerUnsuccessfulCheck ==
  /\ backoff # "none" =>
       /\ hist.backoffCalls = UnsuccessfulChecks
       /\ attempt = hist.backoffCalls
       /\ (backoff # "throws" /\ hist.backoffCalls > 0) =>
            hist.lastWait = BackoffValue(backoff, hist.backoffCalls - 1)
  /\ backoff = "none" =>
       /\ hist.backoffCalls = 0
       /\ UnsuccessfulChecks > 0 => hist.lastWait = interval
  /\ pc = "sleeping" =>
       /\ hist.lastWait > 0
       /\ timerDue = start + hist.lastCheckAt + hist.lastWait

\* C32 witness: the second invocation of backoff received 1 and the loop
\* waits the 1 it returned, with an interval of 2.
C32_Witness ==
  /\ backoff = "attempt"
  /\ interval # 1
  /\ hist.backoffCalls = 2
  /\ pc = "sleeping"
  /\ hist.lastWait = 1

\* Every wait the call computes is zero or negative.
NoPositiveWait == backoff = "negative" \/ (backoff = "none" /\ interval = 0)

\* The last completed check was unsuccessful, did not time out, and the wait
\* computed after it was zero or negative.
LastWaitNotPositive ==
  /\ hist.checks > 0
  /\ UnsuccessfulChecks = hist.checks
  /\ backoff # "throws"
  /\ hist.lastWait <= 0

\* C33: a zero or negative wait makes no error outcome and no delay. The
\* loop goes straight to its next cycle: the cancellation check, which
\* rejects an aborted call, and then the next invocation of condition(). A
\* negative wait does what a wait of zero does: no timer is scheduled by a
\* call whose waits are all zero or negative.
C33_NoDelayForNonPositiveWait ==
  /\ NoPositiveWait => hist.timers = 0 /\ pc # "sleeping"
  /\ LastWaitNotPositive =>
       \/ pc = "cond" /\ hist.condCalls = hist.checks + 1
       \/ pc = "done" /\ aborted /\ outcome[1] = "cancelled"
  /\ hist.condCallsAfterAbort = 0
  /\ outcome[1] = "error" => hist.lastResult \in Errors

\* C33 witness: after two checks that each computed a wait of -1 the third
\* invocation of condition() is in flight, and the call is not settled.
C33_Witness ==
  /\ backoff = "negative"
  /\ hist.checks = 2
  /\ hist.lastWait < 0
  /\ hist.timers = 0
  /\ pc = "cond"
  /\ hist.condCalls = 3
  /\ outcome = Pending

\* C34: every cancellation rejection of sleepUntil, from the pre-check, the
\* in-loop check or the abort listener, is of an aborted signal and carries
\* signal.reason when there is one, the default 'Aborted' AbortError
\* otherwise; it is never the SleepTimeoutError, which is what a timeout
\* rejection carries, so the two are told apart by their error. (Reasons are
\* values of the caller, not SleepTimeoutError instances.)
C34_CancellationCarriesReason ==
  /\ outcome[1] = "cancelled" =>
       /\ aborted
       /\ outcome[2] = (IF reason = "undefined" THEN "AbortError" ELSE reason)
       /\ outcome[2] # "SleepTimeoutError"
       /\ hist.preAborted \/ hist.onAbortRuns > 0
  /\ outcome[1] = "timeout" =>
       /\ outcome[2] = "SleepTimeoutError"
       /\ hist.abortOutcome # Pending \/ ~aborted
  /\ hist.preAborted => outcome[1] = "cancelled"
  /\ (hist.onAbortRuns > 0 /\ hist.abortOutcome = Pending) =>
       outcome[1] = "cancelled"

\* C34 witness: the abort event rejected the call with the signal's reason
\* while a check was in flight; the check then answered an empty value after
\* the deadline, and the rejection is still the cancellation.
C34_Witness ==
  /\ outcome = <<"cancelled", "R1">>
  /\ hist.onAbortByEvent = 1
  /\ pc = "done"
  /\ hist.lastResult \in Empties
  /\ hist.lastCheckAt >= timeout


\* C36: the deadline is evaluated only directly after a check has returned.
\* While an invocation of condition() is in flight or a delay is pending,
\* the call is not rejected by the timeout, whatever the clock reads: unless
\* it is cancelled it stays unsettled. A timeout rejection is committed at
\* the clock of a completed check.
C36_DeadlineOnlyAfterCheck ==
  /\ pc \in {"cond", "sleeping"} =>
       /\ outcome[1] # "timeout"
       /\ ~aborted => outcome = Pending
  /\ outcome[1] = "timeout" =>
       /\ hist.checks >= 1
       /\ hist.settledAt = start + hist.lastCheckAt

\* C36 witness: the first invocation of condition() has not completed, the
\* clock is past the deadline of a finite timeout, and the call is unsettled.
C36_Witness ==
  /\ timeout # Infinity
  /\ pc = "cond"
  /\ hist.checks = 0
  /\ now - start > timeout
  /\ ~aborted
  /\ outcome = Pending


\* C37: when backoff throws, the loop ends without settling the promise: it
\* is neither resolved nor rejected with that error, condition() is not
\* invoked again and no delay is set. The abort listener stays on the
\* signal, and the call can end only by a later abort event, which rejects
\* it with the cancellation.
C37_BackoffThrowLeavesPending ==
  /\ backoff = "throws" =>
       /\ hist.condCalls <= 1
       /\ hist.timers = 0
       /\ UnsuccessfulChecks = 1 => pc = "dead"
  /\ pc = "dead" =>
       /\ backoff = "throws" /\ hist.backoffCalls = 1
       /\ outcome = Pending \/ outcome[1] = "cancelled"
       /\ outcome[1] = "cancelled" => aborted /\ hist.onAbortByEvent = 1
       /\ ~aborted => outcome = Pending /\ listener = hasSignal

\* C37 witness: backoff threw in a call with a signal and a finite timeout;
\* the promise is pending and the listener is on the signal.
C37_Witness ==
  /\ pc = "dead"
  /\ hasSignal /\ ~aborted /\ listener
  /\ timeout # Infinity
  /\ outcome = Pending


\* C38: while sleepUntil polls a synchronous condition with waits of zero or
\* less, its loop is resumed by microtasks only and the event loop never
\* gets to a timer callback: no callback of the caller aborts the signal or
\* changes the condition's answer between the call and the end of the loop.
\* With timeout = Infinity and a condition that answers "not yet" at the
\* call, the call therefore stays unsettled, the loop standing at
\* await condition().
C38_ZeroWaitStarvesTimers ==
  NoPositiveWait =>
    /\ hist.flips = 0
    /\ aborted => hist.abortPc \in {"idle", "done"}
    /\ (timeout = Infinity /\ pc # "idle" /\ ~hist.preAborted
          /\ hist.world0 \in Empties)
         => /\ outcome = Pending
            /\ pc = "cond"
            /\ ~aborted
            /\ world = hist.world0

\* C38 witness: a call with a signal, interval 0 and no timeout has made two
\* checks and invoked condition() a third time while the clock advanced by
\* 2; the signal is not aborted and the call is not settled.
C38_Witness ==
  /\ backoff = "none" /\ interval = 0
  /\ timeout = Infinity
  /\ hasSignal /\ ~aborted
  /\ hist.checks = 2 /\ hist.condCalls = 3
  /\ now - start >= 2
  /\ outcome = Pending

\* ------------------------------------------- more properties of parallel

\* C35: parallel starts the tasks in submission order, on the fast path and
\* on the windowed path: the k-th thunk invoked is that of task k, and none
\* is invoked twice. It resolves only when every one of the N tasks has
\* fulfilled, with an array of exactly N results.
C35_StartedInSubmissionOrder ==
  /\ \A k \in 1..Len(parHist.startOrder) : parHist.startOrder[k] = k
  /\ \A i \in 1..nTasks :
       started[i] = (IF i <= Len(parHist.startOrder) THEN 1 ELSE 0)
  /\ parOutcome[1] = "resolved" =>
       /\ \A i \in 1..nTasks : taskState[i] = "ok"
       /\ Len(parOutcome[2]) = nTasks

\* C35 witness: the windowed path resolved with three results after its
\* three tasks, the second of which completed first.
C35_Witness ==
  /\ nTasks = 3
  /\ concurrency = 2
  /\ parOutcome[1] = "resolved"
  /\ Len(parOutcome[2]) = 3
  /\ parOutcome[2][1] = Output(2)

====
